---- MODULE Spec2Model ----
(***************************************************************************)
(* Ticket lifecycle and check-in of the tickmate backend.                  *)
(*                                                                         *)
(* The state is the content of the Event and Ticket collections, the       *)
(* clock, the request handlers in flight and the response just sent.  A   *)
(* handler is an async function: the code between two `await`s runs        *)
(* without interruption, and every awaited database call is one atomic     *)
(* step of the store.  Each action below is one such step: the database    *)
(* call together with the synchronous code that follows it up to the next  *)
(* `await` or the response.                                                *)
(*                                                                         *)
(* Time is counted in ticks of 12 hours, so that Day (24 hours) is 2.      *)
(***************************************************************************)
EXTENDS Integers, Sequences, FiniteSets, TLC

\* ---------------------------------------------------------------- bounds
MaxTime == 4          \* the clock runs over 0..MaxTime
MaxCap == 2           \* largest capacity a host asks for
MaxScan == 2          \* a re-scan is issued while scanCount < MaxScan
NumCodes == 2         \* size of the space of generated numbers and tokens

\* ------------------------------------------------------- program constants
Day == 2              \* 24 hours, the cancellation limit
NoDate == -1          \* a Date field that was never set
NoStaff == "none"     \* an ObjectId field that was never set

Events == {"e1"}
Attendees == {"a1", "a2"}
Staff == {"s1", "s2"}
Hosts == {"h1"}
Procs == {"p1", "p2"}
Codes == 1..NumCodes

VARIABLES
    now,        \* the clock, new Date()
    events,     \* the Event collection: _id -> document
    tickets,    \* the Ticket collection in insertion order; _id is the index
    reqs,       \* the handler run by each connection, with its local variables
    out         \* the response sent by the step that led here, if any

vars == <<now, events, tickets, reqs, out>>

Idle == [op |-> "idle", pc |-> "done"]

\* A connection takes a new request when it runs no handler.
Free(p) == reqs[p].pc = "done"

\* res.status(code).json({success, message}) of a request req
Respond(req, code, ok, msg) ==
    req @@ [status |-> code, success |-> ok, message |-> msg]

NoResponse == [op |-> "none"]

TicketIds == 1..Len(tickets)

\* A handler goes on with local state r, or answers and ends.
Continue(p, r) == reqs' = [reqs EXCEPT ![p] = r] /\ out' = NoResponse
Answer(p, resp) == reqs' = [reqs EXCEPT ![p] = Idle] /\ out' = resp

\* --------------------------------------------------------------- middleware
\* The User collection, which no handler of the model writes: an active
\* attendee, an attendee who is not active, active staff and an active host.
Users ==
    ("a1" :> [isActive |-> TRUE,  selectedRole |-> "event_attendee"]) @@
    ("a2" :> [isActive |-> FALSE, selectedRole |-> "event_attendee"]) @@
    ("s1" :> [isActive |-> TRUE,  selectedRole |-> "event_staff"]) @@
    ("h1" :> [isActive |-> TRUE,  selectedRole |-> "event_host"])

\* Who a request says it comes from: the user of its token, or nobody for a
\* request without a valid token.
Callers == DOMAIN Users \cup {"nobody"}

\* The routes of the ticket entry points and the role their router asks for.
Routes ==
    ("bookTicket" :> {"event_attendee"}) @@
    ("cancelTicket" :> {"event_attendee"}) @@
    ("scanTicket" :> {"event_staff"})

\* authenticate: the token names a user and the user is active.
Authenticate(u) == u \in DOMAIN Users /\ Users[u].isActive

\* authorize(...allowedRoles)
AuthorizeAnyRole(allowedRoles, u) == TRUE

Authorize(allowedRoles, u) == Users[u].selectedRole \in allowedRoles

\* router.use(authenticate); router.use(authorize(role)): the request of u
\* reaches the handler of the route.
Admitted(u, route) == Authenticate(u) /\ Authorize(Routes[route], u)

\* The middleware answers 401 or 403 and the handler is not called.
Refuse(p, u, route) ==
    /\ Free(p)
    /\ ~Admitted(u, route)
    /\ LET req == [op |-> "authorize", route |-> route, userId |-> u]
       IN IF ~Authenticate(u)
          THEN Answer(p, Respond(req, 401, FALSE, "Invalid token or user not active."))
          ELSE Answer(p, Respond(req, 403, FALSE, "Access denied."))
    /\ UNCHANGED <<now, events, tickets>>

\* ------------------------------------------------------------ Event model
NewEvent(h, start, end, cap, free, staff) ==
    [ host          |-> h,
      startDateTime |-> start,
      endDateTime   |-> end,
      capacity      |-> cap,
      ticketsSold   |-> 0,
      isFree        |-> free,
      assignedStaff |-> staff,
      status        |-> "published" ]

\* createEvent: the date checks and event.save(); the reads and the host
\* counter that follow touch neither events nor tickets.
CreateEvent(p, e, h, start, end, cap, free, staff) ==
    /\ Free(p)
    /\ e \notin DOMAIN events
    /\ LET req == [op |-> "createEvent"]
       IN IF start <= now
          THEN /\ Answer(p, Respond(req, 400, FALSE, "Event start date must be in the future"))
               /\ UNCHANGED events
          ELSE IF end <= start
          THEN /\ Answer(p, Respond(req, 400, FALSE, "Event end date must be after start date"))
               /\ UNCHANGED events
          ELSE /\ events' = events @@ (e :> NewEvent(h, start, end, cap, free, staff))
               /\ Answer(p, Respond(req, 201, TRUE, "Event created successfully"))
    /\ UNCHANGED <<now, tickets>>

\* ----------------------------------------------------------- Ticket model
NewVerification ==
    [ isScanned |-> FALSE, scannedAt |-> NoDate, scannedBy |-> NoStaff,
      entryTime |-> NoDate, exitTime |-> NoDate, scanCount |-> 0 ]

FreeTicket(e, a, num, qr) ==
    [ eventId       |-> e,
      attendeeId    |-> a,
      ticketNumber  |-> num,
      qrCodeData    |-> qr,
      pricePaid     |-> 0,
      paymentStatus |-> "completed",
      status        |-> "active",
      verification  |-> NewVerification ]

\* The paths of the Ticket schema: the fields that ticket.save() stores.
TicketPaths ==
    { "eventId", "attendeeId", "ticketNumber", "qrCodeData", "pricePaid",
      "paymentStatus", "status", "verification" }

\* ticket.save() of a loaded document on which the fields of set were
\* assigned: the stored document takes those that are paths of the schema.
Saved(doc, set) ==
    [ f \in DOMAIN doc \cup (DOMAIN set \cap TicketPaths) |->
        IF f \in DOMAIN set \cap TicketPaths THEN set[f] ELSE doc[f] ]

\* The unique indexes of the Ticket collection: the name of the first index
\* that an insert of doc violates, or "ok".
DuplicateKeyNoPairIndex(doc) ==
    IF \E t \in TicketIds : tickets[t].ticketNumber = doc.ticketNumber
    THEN "ticketNumber"
    ELSE IF \E t \in TicketIds : tickets[t].qrCodeData = doc.qrCodeData
    THEN "qrCodeData"
    ELSE "ok"

DuplicateKey(doc) ==
    IF \E t \in TicketIds : tickets[t].ticketNumber = doc.ticketNumber
    THEN "ticketNumber"
    ELSE IF \E t \in TicketIds : tickets[t].qrCodeData = doc.qrCodeData
    THEN "qrCodeData"
    ELSE IF \E t \in TicketIds : /\ tickets[t].eventId = doc.eventId
                                 /\ tickets[t].attendeeId = doc.attendeeId
    THEN "eventId_attendeeId"
    ELSE "ok"

\* The values that a generator of random numbers or tokens can return when
\* the values of used are taken: any taken value (a collision) or a fresh
\* one, for which the smallest free code stands.
Generated(used) ==
    LET free == Codes \ used
    IN used \cup (IF free = {} THEN {} ELSE {CHOOSE c \in free : \A d \in free : c <= d})

TicketNumbers == {tickets[t].ticketNumber : t \in TicketIds}
QrCodes == {tickets[t].qrCodeData : t \in TicketIds}

\* -------------------------------------------------------------- bookTicket
\* event.ticketsSold >= event.capacity
SoldOutAbove(event) == event.ticketsSold > event.capacity

SoldOutNever(event) == FALSE

SoldOut(event) == event.ticketsSold >= event.capacity

\* Event.findById and the checks on the event; of the loaded event the code
\* that follows reads isFree.
BookFindEvent(p, a, e) ==
    /\ Free(p)
    /\ LET req == [op |-> "bookTicket", attendeeId |-> a, eventId |-> e]
       IN IF e \notin DOMAIN events
          THEN Answer(p, Respond(req, 404, FALSE, "Event not found"))
          ELSE IF events[e].status # "published"
          THEN Answer(p, Respond(req, 400, FALSE, "Event is not available for booking"))
          ELSE IF events[e].startDateTime <= now
          THEN Answer(p, Respond(req, 400, FALSE,
                         "Cannot book tickets for events that have already started"))
          ELSE IF SoldOut(events[e])
          THEN Answer(p, Respond(req, 400, FALSE, "Event is sold out"))
          ELSE Continue(p, req @@ [pc |-> "findExisting",
                                   event |-> [isFree |-> events[e].isFree]])
    /\ UNCHANGED <<now, events, tickets>>

\* Ticket.findOne for a non-cancelled ticket of the attendee; the paid branch
\* answers here, the free branch goes on to ticket.save().
BookFindExisting(p) ==
    /\ reqs[p].op = "bookTicket" /\ reqs[p].pc = "findExisting"
    /\ LET r == reqs[p]
           req == [op |-> "bookTicket", attendeeId |-> r.attendeeId, eventId |-> r.eventId]
           existing == \E t \in TicketIds : /\ tickets[t].eventId = r.eventId
                                            /\ tickets[t].attendeeId = r.attendeeId
                                            /\ tickets[t].status # "cancelled"
       IN IF existing
          THEN Answer(p, Respond(req, 400, FALSE, "You already have a ticket for this event"))
          ELSE IF r.event.isFree
          THEN Continue(p, [r EXCEPT !.pc = "save"])
          ELSE Answer(p, Respond(req, 200, TRUE, "Please proceed to payment"))
    /\ UNCHANGED <<now, events, tickets>>

\* The generated ticketNumber and qrCodeData, and ticket.save(): an insert
\* that a unique index can refuse, which the handler answers with 500.
BookSave(p, num, qr) ==
    /\ reqs[p].op = "bookTicket" /\ reqs[p].pc = "save"
    /\ LET r == reqs[p]
           req == [op |-> "bookTicket", attendeeId |-> r.attendeeId, eventId |-> r.eventId]
           doc == FreeTicket(r.eventId, r.attendeeId, num, qr)
           dup == DuplicateKey(doc)
       IN IF dup = "ok"
          THEN /\ tickets' = Append(tickets, doc)
               /\ Continue(p, [r EXCEPT !.pc = "increment"])
          ELSE /\ UNCHANGED tickets
               /\ Answer(p, Respond(req @@ [error |-> dup], 500, FALSE,
                                    "Server error booking ticket"))
    /\ UNCHANGED <<now, events>>

\* Event.findByIdAndUpdate($inc ticketsSold 1) and the 201 answer.
BookIncrement(p) ==
    /\ reqs[p].op = "bookTicket" /\ reqs[p].pc = "increment"
    /\ LET r == reqs[p]
           req == [op |-> "bookTicket", attendeeId |-> r.attendeeId, eventId |-> r.eventId]
       IN /\ events' = IF r.eventId \in DOMAIN events
                       THEN [events EXCEPT ![r.eventId].ticketsSold = @ + 1]
                       ELSE events
          /\ Answer(p, Respond(req, 201, TRUE, "Free ticket booked successfully!"))
    /\ UNCHANGED <<now, tickets>>

\* ------------------------------------------------------------ getMyTickets
\* canCancel of a loaded ticket: the ticket is active, its event was found
\* by populate, and the event starts later than now + 24 hours.
CanCancel(t) ==
    /\ tickets[t].status = "active"
    /\ tickets[t].eventId \in DOMAIN events
    /\ events[tickets[t].eventId].startDateTime > now + Day

\* getMyTickets without a filter: Ticket.find({attendeeId}) with its
\* populate, and the 200 answer with canCancel of every ticket found.
GetMyTickets(p, a) ==
    /\ Free(p)
    /\ LET req == [op |-> "getMyTickets", attendeeId |-> a]
           found == { t \in TicketIds : tickets[t].attendeeId = a }
       IN Answer(p, Respond(req @@ [ count     |-> Cardinality(found),
                                     canCancel |-> [t \in found |-> CanCancel(t)] ],
                            200, TRUE, ""))
    /\ UNCHANGED <<now, events, tickets>>

\* ------------------------------------------------------------ cancelTicket
\* req.params.ticketId: the id of a ticket, or one id of no ticket.
CancelTargets == 1..(Len(tickets) + 1)

\* hoursUntilEvent < 24, with the clock in ticks
TooLateAtLimit(hoursUntilEvent) == hoursUntilEvent <= Day

TooLate(hoursUntilEvent) == hoursUntilEvent < Day

\* The query {_id: ticketId, attendeeId, status: 'active'} matches a ticket.
MatchesAnyOwner(t, a) == t \in TicketIds /\ tickets[t].status = "active"

Matches(t, a) ==
    /\ t \in TicketIds
    /\ tickets[t].attendeeId = a
    /\ tickets[t].status = "active"

\* Ticket.findOne({_id, attendeeId, status: 'active'}).populate('eventId'),
\* the 24 hour check, and the assignments to status and cancellation of the
\* loaded document.
CancelFind(p, a, t) ==
    /\ Free(p)
    /\ LET req == [op |-> "cancelTicket", attendeeId |-> a, ticketId |-> t]
           found == Matches(t, a)
           hoursUntilEvent == events[tickets[t].eventId].startDateTime - now
       IN IF ~found
          THEN Answer(p, Respond(req, 404, FALSE, "Ticket not found or cannot be cancelled"))
          ELSE IF tickets[t].eventId \notin DOMAIN events
          THEN Answer(p, Respond(req, 500, FALSE, "Server error cancelling ticket"))
          ELSE IF TooLate(hoursUntilEvent)
          THEN Answer(p, Respond(req, 400, FALSE,
                         "Cannot cancel tickets less than 24 hours before the event"))
          ELSE Continue(p, req @@ [pc |-> "save", eventId |-> tickets[t].eventId,
                                   hoursUntilEvent |-> hoursUntilEvent,
                                   pricePaid |-> tickets[t].pricePaid,
                                   set |-> [ status |-> "cancelled",
                                             cancellation |->
                                               [ isCancelled      |-> TRUE,
                                                 cancellationDate |-> now,
                                                 refundAmount     |-> tickets[t].pricePaid ] ]])
    /\ UNCHANGED <<now, events, tickets>>

\* ticket.save(): writes the modified path status; cancellation is no path
\* of the schema.
CancelSave(p) ==
    /\ reqs[p].op = "cancelTicket" /\ reqs[p].pc = "save"
    /\ tickets' = [tickets EXCEPT ![reqs[p].ticketId] = Saved(@, reqs[p].set)]
    /\ Continue(p, [reqs[p] EXCEPT !.pc = "increment"])
    /\ UNCHANGED <<now, events>>

\* Event.findByIdAndUpdate($inc ticketsSold -1) and the 200 answer; no
\* validator runs on this update.
CancelIncrement(p) ==
    /\ reqs[p].op = "cancelTicket" /\ reqs[p].pc = "increment"
    /\ LET r == reqs[p]
           req == [op |-> "cancelTicket", attendeeId |-> r.attendeeId,
                   ticketId |-> r.ticketId, refundAmount |-> r.pricePaid]
       IN /\ events' = IF r.eventId \in DOMAIN events
                       THEN [events EXCEPT ![r.eventId].ticketsSold = @ - 1]
                       ELSE events
          /\ Answer(p, Respond(req, 200, TRUE, "Ticket cancelled successfully"))
    /\ UNCHANGED <<now, tickets>>

\* ---------------------------------------------------------------- payments
\* createDemoPayment: answers with a pending payment for the event named in
\* the body; it reads and writes no collection.
CreateDemoPayment(p, a, e) ==
    /\ Free(p)
    /\ LET req == [op |-> "createDemoPayment", userId |-> a, eventId |-> e]
       IN IF e = "none"
          THEN Answer(p, Respond(req, 400, FALSE, "Event ID is required"))
          ELSE Answer(p, Respond(req @@ [payment |-> "pending"], 201, TRUE,
                                 "Demo payment order created successfully"))
    /\ UNCHANGED <<now, events, tickets>>

\* verifyDemoPayment up to the await of the processing delay; paymentId 0
\* is a body without one.
VerifyDemoPayment(p, a, paymentId) ==
    /\ Free(p)
    /\ LET req == [op |-> "verifyDemoPayment", userId |-> a, paymentId |-> paymentId]
       IN IF paymentId = 0
          THEN Answer(p, Respond(req, 400, FALSE, "Payment ID is required"))
          ELSE Continue(p, req @@ [pc |-> "processing"])
    /\ UNCHANGED <<now, events, tickets>>

\* verifyDemoPayment after the delay: the draw of isSuccessful and the
\* answer, whose ticket is made up for the response and stored nowhere.
VerifyAnswer(p, isSuccessful) ==
    /\ reqs[p].op = "verifyDemoPayment" /\ reqs[p].pc = "processing"
    /\ LET r == reqs[p]
           req == [op |-> "verifyDemoPayment", userId |-> r.userId,
                   paymentId |-> r.paymentId]
       IN IF isSuccessful
          THEN Answer(p, Respond(req @@ [payment |-> "completed", ticket |-> "active"],
                                 200, TRUE,
                                 "Demo payment verified successfully! Ticket created."))
          ELSE Answer(p, Respond(req, 400, FALSE, "Demo payment failed - Please try again"))
    /\ UNCHANGED <<now, events, tickets>>

\* ------------------------------------------------------------- updateEvent
\* The fields of a request body that the handler or a validator looks at;
\* NoDate or 0 for a field the body leaves out.
UpdateBodies ==
    { b \in [ capacity      : 0..MaxCap,
              startDateTime : {NoDate, Day + 1},
              endDateTime   : {NoDate, Day + 2} ] :
        /\ (b.capacity = 0) # (b.startDateTime = NoDate /\ b.endDateTime = NoDate)
        /\ b.endDateTime # NoDate => b.startDateTime # NoDate }

\* The bodies that carry a status and nothing else the model looks at: the
\* host withdraws the event or publishes it again.
StatusBodies ==
    { [capacity |-> 0, startDateTime |-> NoDate, endDateTime |-> NoDate, status |-> st] :
        st \in {"draft", "published"} }

\* Event.findOne({_id, host}) and the checks on the dates.
UpdateFind(p, h, e, body) ==
    /\ Free(p)
    /\ LET req == [op |-> "updateEvent", eventId |-> e]
           given == body.startDateTime # NoDate \/ body.endDateTime # NoDate
           start == IF body.startDateTime # NoDate THEN body.startDateTime
                    ELSE events[e].startDateTime
           end == IF body.endDateTime # NoDate THEN body.endDateTime
                  ELSE events[e].endDateTime
       IN IF e \notin DOMAIN events \/ events[e].host # h
          THEN Answer(p, Respond(req, 404, FALSE,
                         "Event not found or you are not authorized to update it"))
          ELSE IF events[e].startDateTime <= now
          THEN Answer(p, Respond(req, 400, FALSE,
                         "Cannot update event that has already started"))
          ELSE IF given /\ start <= now
          THEN Answer(p, Respond(req, 400, FALSE, "Event start date must be in the future"))
          ELSE IF given /\ end <= start
          THEN Answer(p, Respond(req, 400, FALSE, "Event end date must be after start date"))
          ELSE Continue(p, req @@ [pc |-> "write", body |-> body])
    /\ UNCHANGED <<now, events, tickets>>

\* Event.findByIdAndUpdate(eventId, updateData, {runValidators: true}): sets
\* the fields of the body; the validator of capacity (min 1) refuses 0 only
\* when the body carries it, which 0 here does not.
UpdateWrite(p) ==
    /\ reqs[p].op = "updateEvent" /\ reqs[p].pc = "write"
    /\ LET r == reqs[p]
           b == r.body
           req == [op |-> "updateEvent", eventId |-> r.eventId]
       IN /\ events' = IF r.eventId \in DOMAIN events
              THEN [events EXCEPT ![r.eventId] =
                     [@ EXCEPT
                        !.capacity = IF b.capacity # 0 THEN b.capacity ELSE @,
                        !.startDateTime = IF b.startDateTime # NoDate
                                          THEN b.startDateTime ELSE @,
                        !.endDateTime = IF b.endDateTime # NoDate
                                        THEN b.endDateTime ELSE @,
                        !.status = IF "status" \in DOMAIN b THEN b.status ELSE @]]
              ELSE events
          /\ Answer(p, Respond(req, 200, TRUE, "Event updated successfully"))
    /\ UNCHANGED <<now, tickets>>

\* ------------------------------------------------------------- deleteEvent
\* Event.findOne({_id, host})
DeleteFind(p, h, e) ==
    /\ Free(p)
    /\ LET req == [op |-> "deleteEvent", eventId |-> e]
       IN IF e \notin DOMAIN events \/ events[e].host # h
          THEN Answer(p, Respond(req, 404, FALSE,
                         "Event not found or you are not authorized to delete it"))
          ELSE Continue(p, req @@ [pc |-> "count"])
    /\ UNCHANGED <<now, events, tickets>>

\* Ticket.countDocuments({eventId}): tickets of every status count.
DeleteCount(p) ==
    /\ reqs[p].op = "deleteEvent" /\ reqs[p].pc = "count"
    /\ LET r == reqs[p]
           req == [op |-> "deleteEvent", eventId |-> r.eventId]
           ticketCount == Cardinality({ t \in TicketIds : tickets[t].eventId = r.eventId })
       IN IF ticketCount > 0
          THEN Answer(p, Respond(req, 400, FALSE,
                         "Cannot delete event with sold tickets. Cancel the event instead."))
          ELSE Continue(p, [r EXCEPT !.pc = "delete"])
    /\ UNCHANGED <<now, events, tickets>>

\* Event.findByIdAndDelete(eventId) and the 200 answer.
DeleteRemove(p) ==
    /\ reqs[p].op = "deleteEvent" /\ reqs[p].pc = "delete"
    /\ LET r == reqs[p]
           req == [op |-> "deleteEvent", eventId |-> r.eventId]
       IN /\ events' = [e \in DOMAIN events \ {r.eventId} |-> events[e]]
          /\ Answer(p, Respond(req, 200, TRUE, "Event deleted successfully"))
    /\ UNCHANGED <<now, tickets>>

\* -------------------------------------------------------------- scanTicket
NoEvent == "none"

\* Ticket.findOne(query): the query holds ticketNumber when the body has one,
\* else qrCodeData, and eventId when the body has one; 0 when none matches.
FindTicket(num, qr, ev) ==
    LET matches == { t \in TicketIds :
                       /\ IF num # 0 THEN tickets[t].ticketNumber = num
                                     ELSE tickets[t].qrCodeData = qr
                       /\ ev = NoEvent \/ tickets[t].eventId = ev }
    IN IF matches = {} THEN 0 ELSE CHOOSE t \in matches : \A u \in matches : t <= u

\* req.body of a scan: ticketNumber, qrCodeData or neither; 0 for a field the
\* body leaves out.
ScanBodies ==
    { b \in [ticketNumber : {0} \cup Codes, qrCodeData : {0} \cup Codes] :
        b.ticketNumber = 0 \/ b.qrCodeData = 0 }

\* Every body of a scan over the codes, with both fields too.
AllScanBodies == [ticketNumber : {0} \cup Codes, qrCodeData : {0} \cup Codes]

\* assignedStaff.some(id => id.toString() === staffId.toString())
IsAssignedAnyone(event, s) == TRUE

IsAssigned(event, s) == s \in event.assignedStaff

\* The entry branch: the verification of the loaded document after it.
EntryScanOverwrite(v, s, t) ==
    [v EXCEPT !.isScanned = TRUE, !.scannedAt = t, !.scannedBy = s,
              !.entryTime = t, !.scanCount = v.scanCount + 1]

EntryScan(v, s, t) ==
    IF v.isScanned
    THEN [v EXCEPT !.scanCount = @ + 1]
    ELSE [v EXCEPT !.isScanned = TRUE, !.scannedAt = t, !.scannedBy = s,
                   !.entryTime = t, !.scanCount = 1]

\* The exit branch goes on only for a scanned ticket.
ExitAllowedAlways(v) == TRUE

ExitAllowed(v) == v.isScanned

\* tickets[t].status !== 'active'
NotActiveNever(t) == FALSE

NotActive(t) == tickets[t].status # "active"

\* The paths of verification that differ from the loaded document: the ones
\* that ticket.save() writes.
Modified(loaded, doc) == { f \in DOMAIN doc : doc[f] # loaded[f] }

\* Ticket.findOne(query) with its populate, the checks, and the change of the
\* loaded document up to ticket.save().
ScanFind(p, s, num, qr, ev, action) ==
    /\ Free(p)
    /\ LET t == FindTicket(num, qr, ev)
           req == [op |-> "scanTicket", staffId |-> s, action |-> action, ticketId |-> t]
           loaded == tickets[t].verification
           event == events[tickets[t].eventId]
           doc == IF action = "entry" THEN EntryScan(loaded, s, now)
                  ELSE [loaded EXCEPT !.exitTime = now]
       IN IF num = 0 /\ qr = 0
          THEN Answer(p, Respond([req EXCEPT !.ticketId = 0], 400, FALSE,
                                 "Ticket number or QR code data required"))
          ELSE IF t = 0
          THEN Answer(p, Respond(req, 404, FALSE, "Ticket not found"))
          ELSE IF tickets[t].eventId \notin DOMAIN events
          THEN Answer(p, Respond(req, 500, FALSE, "Server error scanning ticket"))
          ELSE IF ~IsAssigned(event, s)
          THEN Answer(p, Respond(req, 403, FALSE, "You are not assigned to this event"))
          ELSE IF NotActive(t)
          THEN Answer(p, Respond(req, 400, FALSE, "Cannot scan inactive tickets."))
          ELSE IF action = "entry" /\ now < event.startDateTime
          THEN Answer(p, Respond(req, 400, FALSE, "Event has not started yet"))
          ELSE IF now > event.endDateTime
          THEN Answer(p, Respond(req, 400, FALSE, "Event has already ended"))
          ELSE IF action = "exit" /\ ~ExitAllowed(loaded)
          THEN Answer(p, Respond(req, 400, FALSE, "Cannot record exit for unscanned ticket"))
          ELSE /\ action = "entry" => loaded.scanCount < MaxScan
               /\ Continue(p, req @@ [pc |-> "save", doc |-> doc,
                                      modified |-> Modified(loaded, doc)])
    /\ UNCHANGED <<now, events, tickets>>

\* ticket.save(): writes the modified paths, and the 200 answer, which reads
\* scanCount from the document in memory.
ScanSaveMarksUsed(p) ==
    /\ reqs[p].op = "scanTicket" /\ reqs[p].pc = "save"
    /\ LET r == reqs[p]
           req == [op |-> "scanTicket", staffId |-> r.staffId, action |-> r.action,
                   ticketId |-> r.ticketId]
           stored == tickets[r.ticketId].verification
       IN /\ tickets' = [tickets EXCEPT ![r.ticketId] =
                           [@ EXCEPT !.status = "used",
                                     !.verification =
                                        [f \in DOMAIN stored |->
                                           IF f \in r.modified THEN r.doc[f]
                                           ELSE stored[f]]]]
          /\ Answer(p, Respond(req @@ [scanCount   |-> r.doc.scanCount,
                                       isFirstScan |-> r.doc.scanCount = 1],
                               200, TRUE, "Ticket recorded successfully"))
    /\ UNCHANGED <<now, events>>

ScanSave(p) ==
    /\ reqs[p].op = "scanTicket" /\ reqs[p].pc = "save"
    /\ LET r == reqs[p]
           req == [op |-> "scanTicket", staffId |-> r.staffId, action |-> r.action,
                   ticketId |-> r.ticketId]
           stored == tickets[r.ticketId].verification
       IN /\ tickets' = [tickets EXCEPT ![r.ticketId].verification =
                           [f \in DOMAIN stored |->
                              IF f \in r.modified THEN r.doc[f] ELSE stored[f]]]
          /\ Answer(p, Respond(req @@ [scanCount   |-> r.doc.scanCount,
                                       isFirstScan |-> r.doc.scanCount = 1],
                               200, TRUE, "Ticket recorded successfully"))
    /\ UNCHANGED <<now, events>>

\* ------------------------------------------------------ getEventAttendance
\* (n / d).toFixed(2), in hundredths: n / d rounded to two decimals.
ToFixed2(n, d) == (200 * n + d) \div (2 * d)

\* attendanceRate, in hundredths.
AttendanceRate(scanned, total) ==
    IF total > 0 THEN ToFixed2(scanned * 100, total) ELSE 0

\* Ticket.find({eventId, status: 'active'})
ActiveTicketsAnyStatus(e) == { t \in TicketIds : tickets[t].eventId = e }

ActiveTickets(e) ==
    { t \in TicketIds : tickets[t].eventId = e /\ tickets[t].status = "active" }

\* Event.findById and the check that the caller is staff of the event.
GetEventAttendance(p, s, e) ==
    /\ Free(p)
    /\ LET req == [op |-> "getEventAttendance", staffId |-> s, eventId |-> e]
       IN IF e \notin DOMAIN events
          THEN Answer(p, Respond(req, 404, FALSE, "Event not found"))
          ELSE IF ~IsAssigned(events[e], s)
          THEN Answer(p, Respond(req, 403, FALSE, "You are not assigned to this event"))
          ELSE Continue(p, req @@ [pc |-> "tickets"])
    /\ UNCHANGED <<now, events, tickets>>

\* Ticket.find of the active tickets of the event, the statistics and the
\* 200 answer, which carries no message.
AttendanceCount(p) ==
    /\ reqs[p].op = "getEventAttendance" /\ reqs[p].pc = "tickets"
    /\ LET r == reqs[p]
           req == [op |-> "getEventAttendance", staffId |-> r.staffId,
                   eventId |-> r.eventId]
           found == ActiveTickets(r.eventId)
           totalTickets == Cardinality(found)
           scannedTickets ==
               Cardinality({ t \in found : tickets[t].verification.isScanned })
       IN Answer(p, Respond(req @@ [ totalTickets     |-> totalTickets,
                                     scannedTickets   |-> scannedTickets,
                                     unscannedTickets |-> totalTickets - scannedTickets,
                                     attendanceRate   |->
                                         AttendanceRate(scannedTickets, totalTickets) ],
                            200, TRUE, ""))
    /\ UNCHANGED <<now, events, tickets>>

\* ------------------------------------------------------------------ faults
\* The message of the catch block of each handler.
ServerError ==
    ("bookTicket" :> "Server error booking ticket") @@
    ("cancelTicket" :> "Server error cancelling ticket") @@
    ("scanTicket" :> "Server error scanning ticket")

\* The awaited database call that the handler of p has come to rejects: the
\* call writes nothing, and the catch block answers 500.
Rejects(p) ==
    /\ reqs[p].op \in DOMAIN ServerError
    /\ Answer(p, Respond([op |-> reqs[p].op], 500, FALSE, ServerError[reqs[p].op]))
    /\ UNCHANGED <<now, events, tickets>>

\* ------------------------------------------------------------------- clock
Tick ==
    /\ now < MaxTime
    /\ now' = now + 1
    /\ out' = NoResponse
    /\ UNCHANGED <<events, tickets, reqs>>

\* ------------------------------------------------------------------ ledger
Init ==
    /\ now = 0
    /\ events = << >>
    /\ tickets = << >>
    /\ reqs = [p \in Procs |-> Idle]
    /\ out = NoResponse

Next ==
    \/ \E p \in Procs, e \in Events, h \in Hosts, cap \in 1..MaxCap, free \in BOOLEAN :
          CreateEvent(p, e, h, Day, Day + 1, cap, free, {"s1"})
    \/ \E p \in Procs, a \in Attendees, e \in Events : BookFindEvent(p, a, e)
    \/ \E p \in Procs : BookFindExisting(p)
    \/ \E p \in Procs, num \in Generated(TicketNumbers), qr \in Generated(QrCodes) :
          BookSave(p, num, qr)
    \/ \E p \in Procs : BookIncrement(p)
    \/ \E p \in Procs, a \in Attendees, t \in CancelTargets : CancelFind(p, a, t)
    \/ \E p \in Procs : CancelSave(p)
    \/ \E p \in Procs : CancelIncrement(p)
    \/ \E p \in Procs, h \in Hosts, e \in Events, body \in UpdateBodies :
          UpdateFind(p, h, e, body)
    \/ \E p \in Procs : UpdateWrite(p)
    \/ Tick

Spec == Init /\ [][Next]_vars

\* ------------------------------------------------------- ledger properties
LiveTickets(e, a) ==
    { t \in TicketIds : /\ tickets[t].eventId = e
                        /\ tickets[t].attendeeId = a
                        /\ tickets[t].status # "cancelled" }

\* C1: in every reachable state every event has 0 <= ticketsSold <= capacity.
C1_SoldWithinCapacity ==
    \A e \in DOMAIN events :
        0 <= events[e].ticketsSold /\ events[e].ticketsSold <= events[e].capacity

Decrements(p, t) ==
    /\ reqs[p].op = "cancelTicket"
    /\ reqs[p].pc = "increment"
    /\ reqs[p].ticketId = t

\* C4: the cancellation of a ticket decrements ticketsSold once, however many
\* cancelTicket requests for the ticket overlap.
C4_OneDecrementPerTicket ==
    \A t \in TicketIds : \A p, q \in Procs :
        Decrements(p, t) /\ Decrements(q, t) => p = q

\* The step is cancelTicket taking up the ticket t of a: it has passed the
\* 24 hour check and goes on to save.
CancelAccepted(a, t) ==
    \E p \in Procs : /\ Free(p)
                     /\ reqs'[p].op = "cancelTicket"
                     /\ reqs'[p].attendeeId = a
                     /\ reqs'[p].ticketId = t

\* The step is cancelTicket answering for the ticket t of a at once.
CancelRejected(a, t) ==
    /\ out'.op = "cancelTicket"
    /\ reqs' = reqs
    /\ out'.attendeeId = a
    /\ out'.ticketId = t

C13_CancellationRecorded ==
    [][ out'.op = "cancelTicket" /\ out'.success
        => LET doc == tickets'[out'.ticketId]
           IN /\ doc.status = "cancelled"
              /\ out'.refundAmount = doc.pricePaid
              /\ "cancellation" \in DOMAIN doc
              /\ doc.cancellation.isCancelled
              /\ doc.cancellation.cancellationDate <= now
              /\ doc.cancellation.refundAmount = doc.pricePaid ]_vars

C23_ForeignCancelFails ==
    [][ /\ \A p \in Procs :
              Free(p) /\ reqs'[p].op = "cancelTicket"
              => LET t == reqs'[p].ticketId
                 IN /\ t \in TicketIds
                    /\ tickets[t].attendeeId = reqs'[p].attendeeId
                    /\ tickets[t].status = "active"
        /\ out'.op = "cancelTicket" /\ reqs' = reqs
           => /\ ~out'.success
              /\ tickets' = tickets
              /\ events' = events ]_vars

\* An attendee has just been refused the cancellation of an active ticket
\* of somebody else, a day or more before the start.
C23_ForeignTicketKept ==
    /\ out.op = "cancelTicket"
    /\ ~out.success
    /\ out.ticketId \in TicketIds
    /\ tickets[out.ticketId].status = "active"
    /\ tickets[out.ticketId].attendeeId # out.attendeeId
    /\ events[tickets[out.ticketId].eventId].startDateTime - now >= Day

\* C17: a bookTicket whose insert a unique index refuses answers as a
\* duplicate booking or as sold out, not with the server error, and changes
\* neither the tickets nor ticketsSold.
C17_ConflictTranslated ==
    [][ out'.op = "bookTicket" /\ "error" \in DOMAIN out'
        => /\ out'.status # 500
           /\ out'.message \in { "You already have a ticket for this event",
                                  "Event is sold out" }
           /\ tickets' = tickets
           /\ events' = events ]_vars

\* C18: no two tickets share a ticketNumber or a token, and no booking fails
\* because the number or token generated for it is already taken: it goes on
\* with fresh values.
C18_CollisionRetried ==
    /\ \A t, u \in TicketIds :
          t # u => /\ tickets[t].ticketNumber # tickets[u].ticketNumber
                   /\ tickets[t].qrCodeData # tickets[u].qrCodeData
    /\ ~ ( /\ out.op = "bookTicket"
           /\ "error" \in DOMAIN out
           /\ out.error \in {"ticketNumber", "qrCodeData"} )

\* No bookTicket or cancelTicket request is in flight.
Quiescent == \A p \in Procs : reqs[p].op \notin {"bookTicket", "cancelTicket"}

\* C21: in every state in which no bookTicket or cancelTicket request is in
\* flight, ticketsSold of every event is the number of its tickets that are
\* not cancelled.
C21_SoldMatchesLive ==
    Quiescent =>
        \A e \in DOMAIN events :
            events[e].ticketsSold =
                Cardinality({ t \in TicketIds : /\ tickets[t].eventId = e
                                                /\ tickets[t].status # "cancelled" })

\* --------------------------------------------------------------- last seat
\* A free published event with capacity 1 and nothing sold, as createEvent
\* leaves it, and the bookings for it.
LastSeatInit ==
    /\ now = 0
    /\ events = ("e1" :> NewEvent("h1", Day, Day + 1, 1, TRUE, {"s1"}))
    /\ tickets = << >>
    /\ reqs = [p \in Procs |-> Idle]
    /\ out = NoResponse

LastSeatNext ==
    \/ \E p \in Procs, a \in Attendees, e \in Events : BookFindEvent(p, a, e)
    \/ \E p \in Procs : BookFindExisting(p)
    \/ \E p \in Procs, num \in Generated(TicketNumbers), qr \in Generated(QrCodes) :
          BookSave(p, num, qr)
    \/ \E p \in Procs : BookIncrement(p)
    \/ Tick

LastSeatSpec == LastSeatInit /\ [][LastSeatNext]_vars

\* C3: of the bookings by distinct attendees for an event with capacity 1 and
\* ticketsSold 0, however they overlap, exactly one creates a ticket: the
\* event never has two tickets.
C3_OneBookingWins ==
    \A e \in DOMAIN events :
        Cardinality({ t \in TicketIds : tickets[t].eventId = e }) <= 1

\* -------------------------------------------------------------- paid event
\* A paid published event, as createEvent leaves it, the bookings for it and
\* the demo payments.
PayInit ==
    /\ now = 0
    /\ events = ("e1" :> NewEvent("h1", Day, Day + 1, 2, FALSE, {"s1"}))
    /\ tickets = << >>
    /\ reqs = [p \in Procs |-> Idle]
    /\ out = NoResponse

PayNext ==
    \/ \E p \in Procs, a \in Attendees, e \in Events : BookFindEvent(p, a, e)
    \/ \E p \in Procs : BookFindExisting(p)
    \/ \E p \in Procs, a \in Attendees, e \in Events \cup {"none"} :
          CreateDemoPayment(p, a, e)
    \/ \E p \in Procs, a \in Attendees, paymentId \in {0, 1} :
          VerifyDemoPayment(p, a, paymentId)
    \/ \E p \in Procs, isSuccessful \in BOOLEAN : VerifyAnswer(p, isSuccessful)
    \/ Tick

PaySpec == PayInit /\ [][PayNext]_vars

\* C12: a booking for a paid event that is sent on to payment stores no
\* ticket and leaves ticketsSold alone, and a payment verification that
\* succeeds stores an active ticket with paymentStatus completed for the
\* payer and adds one to ticketsSold of its event.
C12_TicketOnPayment ==
    [][ /\ out'.op = "bookTicket" /\ out'.message = "Please proceed to payment"
           => tickets' = tickets /\ events' = events
        /\ out'.op = "verifyDemoPayment" /\ out'.success
           => \E t \in DOMAIN tickets' \ DOMAIN tickets :
                 /\ tickets'[t].attendeeId = out'.userId
                 /\ tickets'[t].status = "active"
                 /\ tickets'[t].paymentStatus = "completed"
                 /\ events'[tickets'[t].eventId].ticketsSold =
                      events[tickets'[t].eventId].ticketsSold + 1 ]_vars

\* ---------------------------------------------------------------- scenario
\* Three attendees and one connection: the requests run one after another.
\* The event is free, published, starts in a day and has capacity 2.
Guests == {"a1", "a2", "a3"}

\* A generated number or token that no ticket has.
Fresh(used) == {CHOOSE c \in 1..(Cardinality(used) + 1) : c \notin used}

ScenarioInit ==
    /\ now = 0
    /\ events = ("e1" :> NewEvent("h1", Day, Day + 1, 2, TRUE, {"s1"}))
    /\ tickets = << >>
    /\ reqs = [p \in Procs |-> Idle]
    /\ out = NoResponse

ScenarioNext ==
    \/ \E a \in Guests, e \in Events : BookFindEvent("p1", a, e)
    \/ BookFindExisting("p1")
    \/ \E num \in Fresh(TicketNumbers), qr \in Fresh(QrCodes) : BookSave("p1", num, qr)
    \/ BookIncrement("p1")
    \/ \E a \in Guests, t \in CancelTargets : CancelFind("p1", a, t)
    \/ CancelSave("p1")
    \/ CancelIncrement("p1")
    \/ Tick

ScenarioSpec == ScenarioInit /\ [][ScenarioNext]_vars

\* The tickets of the event e that are not cancelled.
Live(e) == { t \in TicketIds : tickets[t].eventId = e /\ tickets[t].status # "cancelled" }

\* The attendee a has never booked.
Ticketless(a) == \A t \in TicketIds : tickets[t].attendeeId # a

\* C11: with the requests one after another on an event of capacity 2 that
\* has not started, the booking of an attendee without a ticket is taken up
\* while fewer than 2 tickets are live and then answers 201, and is rejected
\* as sold out while 2 are live (the third attendee, until a ticket is
\* cancelled); between requests ticketsSold is the number of live tickets.
C11_SeatFreedByCancel ==
    [][ /\ \A a \in Guests :
              ( /\ Free("p1")
                /\ Ticketless(a)
                /\ now < events["e1"].startDateTime
                /\ \/ out'.op = "bookTicket" /\ out'.attendeeId = a
                   \/ reqs'["p1"].op = "bookTicket" /\ reqs'["p1"].attendeeId = a )
              => IF Cardinality(Live("e1")) >= 2
                 THEN out'.op = "bookTicket" /\ out'.message = "Event is sold out"
                 ELSE reqs'["p1"].pc = "findExisting"
        /\ ( /\ reqs["p1"].op = "bookTicket"
             /\ Free("p1")'
             /\ Ticketless(reqs["p1"].attendeeId) \/ reqs["p1"].pc = "increment" )
           => out'.status = 201 /\ out'.success
        /\ Free("p1")' => events'["e1"].ticketsSold = Cardinality(Live("e1")') ]_vars

\* The third attendee holds the ticket booked last, after the first
\* attendee's ticket was cancelled, and ticketsSold is 2.
C11_ThirdGuestSeated ==
    /\ out.op = "bookTicket" /\ out.status = 201 /\ out.attendeeId = "a3"
    /\ Len(tickets) = 3
    /\ tickets[1].attendeeId = "a1" /\ tickets[1].status = "cancelled"
    /\ tickets[2].attendeeId = "a2" /\ tickets[2].status = "active"
    /\ tickets[3].attendeeId = "a3" /\ tickets[3].status = "active"
    /\ events["e1"].ticketsSold = 2

ScanInit ==
    /\ now = 0
    /\ \E staff \in {{"s1"}, {"s1", "s2"}} :
          events = ("e1" :> [NewEvent("h1", Day, Day + 1, 2, TRUE, staff)
                               EXCEPT !.ticketsSold = 1])
    /\ tickets = <<FreeTicket("e1", "a1", 1, 1)>>
    /\ reqs = [p \in Procs |-> Idle]
    /\ out = NoResponse

ScanNext ==
    \/ \E p \in Procs, s \in Staff, b \in ScanBodies, action \in {"entry", "exit"} :
          ScanFind(p, s, b.ticketNumber, b.qrCodeData, NoEvent, action)
    \/ \E p \in Procs : ScanSave(p)
    \/ \E p \in Procs, a \in Attendees, t \in CancelTargets : CancelFind(p, a, t)
    \/ \E p \in Procs : CancelSave(p)
    \/ \E p \in Procs : CancelIncrement(p)
    \/ Tick

ScanSpec == ScanInit /\ [][ScanNext]_vars

\* ----------------------------------------------------- check-in properties
\* The step is an entry scan by p taking up the ticket t as it is stored.
EntryLoaded(p, t) ==
    /\ Free(p)
    /\ reqs'[p].op = "scanTicket"
    /\ reqs'[p].action = "entry"
    /\ reqs'[p].ticketId = t

\* The step is a scan answering at once, without a save.
ScanRefused == out'.op = "scanTicket" /\ reqs' = reqs

\* The step is the save and answer of a re-scan: an entry scan by p that found
\* its ticket scanned and changed scanCount alone.
RescanSaved(p) ==
    /\ reqs[p].op = "scanTicket"
    /\ reqs[p].action = "entry"
    /\ reqs[p].modified = {"scanCount"}
    /\ reqs'[p].op = "idle"

\* What a re-scan does from the load of a scanned ticket to the answer.
RescanEffect ==
    /\ \A p \in Procs, t \in TicketIds :
          EntryLoaded(p, t) /\ tickets[t].verification.isScanned
          => /\ reqs'[p].doc.scanCount > tickets[t].verification.scanCount
             /\ reqs'[p].modified = {"scanCount"}
    /\ \A p \in Procs :
          RescanSaved(p)
          => LET v == tickets[reqs[p].ticketId].verification
                 w == tickets'[reqs[p].ticketId].verification
             IN /\ out'.success
                /\ ~out'.isFirstScan
                /\ out'.scanCount = reqs[p].doc.scanCount
                /\ w.scannedAt = v.scannedAt
                /\ w.scannedBy = v.scannedBy
                /\ w.entryTime = v.entryTime
                /\ w.exitTime = v.exitTime
                /\ w.isScanned

\* The ticket t is active and scanned and s is staff of its event.
ScannedForStaff(t, s) ==
    /\ t # 0
    /\ tickets[t].status = "active"
    /\ tickets[t].verification.isScanned
    /\ tickets[t].eventId \in DOMAIN events
    /\ s \in events[tickets[t].eventId].assignedStaff

InWindow(t) ==
    /\ events[tickets[t].eventId].startDateTime <= now
    /\ now <= events[tickets[t].eventId].endDateTime

\* C6 as stated: an entry scan by assigned staff of an active ticket that is
\* already scanned never answers with an error, answers isFirstScan false and
\* a scanCount above the stored one, and leaves scannedAt, scannedBy and
\* entryTime as the first scan set them.
C6_RescanNeverFails ==
    [][ /\ RescanEffect
        /\ ScanRefused /\ out'.action = "entry"
           => ~ScannedForStaff(out'.ticketId, out'.staffId) ]_vars

\* C6, amended: the same for an entry scan made while start <= now <= end.
C6_RescanInWindow ==
    [][ /\ RescanEffect
        /\ ScanRefused /\ out'.action = "entry"
           => ~(ScannedForStaff(out'.ticketId, out'.staffId) /\ InWindow(out'.ticketId)) ]_vars

\* A re-scan by another member of staff, later than the first scan, has just
\* answered and left scannedBy and scannedAt alone.
C6_RescanAnswered ==
    /\ out.op = "scanTicket"
    /\ out.success
    /\ out.action = "entry"
    /\ ~out.isFirstScan
    /\ out.scanCount = 2
    /\ tickets[out.ticketId].verification.scannedBy # out.staffId
    /\ tickets[out.ticketId].verification.scannedAt < now

\* The step is the save and answer of a scan by p.
ScanSaved(p) == reqs[p].op = "scanTicket" /\ reqs'[p].op = "idle"

\* C7: the first entry scan of a ticket sets isScanned, scannedAt, scannedBy,
\* entryTime and scanCount 1 and answers isFirstScan true; the entry scan
\* that follows it answers isFirstScan false and scanCount 2; no other scan
\* answer, an exit scan least of all, carries isFirstScan true.
C7_FirstScanOnly ==
    [][ /\ \A p \in Procs, t \in TicketIds :
              ( /\ EntryLoaded(p, t)
                /\ tickets[t].verification.isScanned
                /\ tickets[t].verification.scanCount = 1 )
              => reqs'[p].doc.scanCount = 2
        /\ \A p \in Procs :
              ScanSaved(p)
              => LET w == tickets'[reqs[p].ticketId].verification
                     first == /\ reqs[p].action = "entry"
                              /\ "isScanned" \in reqs[p].modified
                 IN /\ out'.success
                    /\ out'.scanCount = reqs[p].doc.scanCount
                    /\ out'.isFirstScan <=> first
                    /\ first => /\ w.isScanned
                                /\ w.scanCount = 1
                                /\ out'.scanCount = 1
                                /\ w.scannedBy = reqs[p].staffId
                                /\ w.scannedAt = reqs[p].doc.scannedAt
                                /\ w.scannedAt # NoDate
                                /\ w.entryTime = w.scannedAt ]_vars

\* C8: every entry scan that completes adds one to the stored scanCount, and
\* the one that answers isFirstScan true found the ticket unscanned in store.
C8_NoLostScan ==
    [][ out'.op = "scanTicket" /\ out'.success /\ out'.action = "entry"
        => LET v == tickets[out'.ticketId].verification
               w == tickets'[out'.ticketId].verification
           IN /\ w.scanCount = v.scanCount + 1
              /\ out'.isFirstScan => ~v.isScanned ]_vars

ExitTimeOnlyScanned ==
    \A t \in TicketIds :
        tickets[t].verification.exitTime # NoDate => tickets[t].verification.isScanned

\* C9: an exit scan of a ticket that is not scanned fails and changes nothing,
\* with the not-checked-in error when the earlier checks pass; exitTime is
\* set on scanned tickets only.
C9_ExitNeedsEntry ==
    [][ /\ ExitTimeOnlyScanned'
        /\ ( /\ out'.op = "scanTicket"
             /\ out'.action = "exit"
             /\ out'.ticketId # 0
             /\ ~tickets[out'.ticketId].verification.isScanned )
           => LET t == out'.ticketId
              IN /\ ~out'.success
                 /\ tickets' = tickets
                 /\ ( /\ tickets[t].eventId \in DOMAIN events
                      /\ out'.staffId \in events[tickets[t].eventId].assignedStaff
                      /\ tickets[t].status = "active"
                      /\ now <= events[tickets[t].eventId].endDateTime )
                    => /\ out'.status = 400
                       /\ out'.message = "Cannot record exit for unscanned ticket" ]_vars

\* An exit scan of an unscanned ticket, made after the start of the event,
\* has just been refused as not checked in.
C9_ExitRefused ==
    /\ out.op = "scanTicket"
    /\ out.action = "exit"
    /\ out.message = "Cannot record exit for unscanned ticket"
    /\ tickets[out.ticketId].verification.exitTime = NoDate
    /\ now >= events[tickets[out.ticketId].eventId].startDateTime

\* C10: a scan by staff who are not assigned to the event of the ticket fails
\* with the not-assigned error and changes no ticket, whatever the status of
\* the ticket and the time.
C10_UnassignedRefused ==
    [][ ( /\ out'.op = "scanTicket"
          /\ out'.ticketId # 0
          /\ tickets[out'.ticketId].eventId \in DOMAIN events
          /\ out'.staffId \notin events[tickets[out'.ticketId].eventId].assignedStaff )
        => /\ out'.status = 403
           /\ ~out'.success
           /\ out'.message = "You are not assigned to this event"
           /\ tickets' = tickets ]_vars

\* Staff who are not assigned have just been refused the scan of a cancelled
\* ticket after the end of the event.
C10_RefusedCancelledAfterEnd ==
    /\ out.op = "scanTicket"
    /\ out.status = 403
    /\ tickets[out.ticketId].status = "cancelled"
    /\ now > events[tickets[out.ticketId].eventId].endDateTime

\* C24: a scan is taken up only for an active ticket; a scan that finds its
\* ticket not active is answered at once with a failure, which is the
\* ticket-not-active error when the staff are assigned to the event, and
\* changes no ticket; a cancelled ticket never returns to active.
C24_InactiveScanRefused ==
    [][ /\ \A t \in TicketIds :
              tickets[t].status = "cancelled" => tickets'[t].status = "cancelled"
        /\ \A p \in Procs :
              Free(p) /\ reqs'[p].op = "scanTicket"
              => tickets[reqs'[p].ticketId].status = "active"
        /\ ( /\ ScanRefused
             /\ out'.ticketId # 0
             /\ tickets[out'.ticketId].status # "active" )
           => /\ ~out'.success
              /\ tickets' = tickets
              /\ out'.staffId \in events[tickets[out'.ticketId].eventId].assignedStaff
                 => /\ out'.status = 400
                    /\ out'.message = "Cannot scan inactive tickets." ]_vars

\* After the start of the event, assigned staff have just been refused the
\* entry scan of a cancelled ticket.
C24_CancelledAtDoor ==
    /\ out.op = "scanTicket" /\ out.action = "entry"
    /\ out.message = "Cannot scan inactive tickets."
    /\ tickets[out.ticketId].status = "cancelled"
    /\ ~tickets[out.ticketId].verification.isScanned
    /\ now >= events[tickets[out.ticketId].eventId].startDateTime

\* C27: in every reachable state a ticket with isScanned has status active,
\* however cancelTicket and scanTicket for the ticket overlap.
C27_ScannedStaysActive ==
    \A t \in TicketIds :
        tickets[t].verification.isScanned => tickets[t].status = "active"

\* The step belongs to a scan: a scan is taken up, saved or answered.
ScanStep ==
    \/ out'.op = "scanTicket"
    \/ \E p \in Procs : reqs'[p].op = "scanTicket" /\ reqs'[p] # reqs[p]

\* C16: the status of every ticket is active or cancelled after every step,
\* and a step of a scan changes of a ticket nothing but its verification.
C16_NeverUsed ==
    [][ /\ \A t \in DOMAIN tickets' : tickets'[t].status \in {"active", "cancelled"}
        /\ ScanStep
           => /\ DOMAIN tickets' = DOMAIN tickets
              /\ \A t \in TicketIds :
                    [tickets'[t] EXCEPT !.verification = tickets[t].verification]
                      = tickets[t] ]_vars

\* An exit scan of a ticket scanned twice for entry has just been saved and
\* answered, and the ticket is active.
C16_ActiveAfterScans ==
    /\ out.op = "scanTicket" /\ out.success /\ out.action = "exit"
    /\ tickets[out.ticketId].verification.scanCount = 2
    /\ tickets[out.ticketId].verification.exitTime = now
    /\ tickets[out.ticketId].status = "active"

\* -------------------------------------------------------------------- door
\* One connection at the door of a free event of capacity 2 with both
\* tickets booked, a day before the start.
DoorInit ==
    /\ now = 0
    /\ events = ("e1" :> [NewEvent("h1", Day, Day + 1, 2, TRUE, {"s1"})
                            EXCEPT !.ticketsSold = 2])
    /\ tickets = <<FreeTicket("e1", "a1", 1, 1), FreeTicket("e1", "a2", 2, 2)>>
    /\ reqs = [p \in Procs |-> Idle]
    /\ out = NoResponse

DoorNext ==
    \/ \E s \in Staff, b \in AllScanBodies, action \in {"entry", "exit"} :
          ScanFind("p1", s, b.ticketNumber, b.qrCodeData, NoEvent, action)
    \/ ScanSave("p1")
    \/ \E a \in Attendees, t \in CancelTargets : CancelFind("p1", a, t)
    \/ CancelSave("p1")
    \/ CancelIncrement("p1")
    \/ \E s \in Staff, e \in Events \cup {NoEvent} : GetEventAttendance("p1", s, e)
    \/ AttendanceCount("p1")
    \/ Tick

DoorSpec == DoorInit /\ [][DoorNext]_vars

\* The body b names one ticket by its number and another by its token.
Ambiguous(b) ==
    /\ b.ticketNumber # 0 /\ b.qrCodeData # 0
    /\ FindTicket(b.ticketNumber, 0, NoEvent) # 0
    /\ FindTicket(0, b.qrCodeData, NoEvent) # 0
    /\ FindTicket(b.ticketNumber, 0, NoEvent) # FindTicket(0, b.qrCodeData, NoEvent)

\* C15: a scan whose ticketNumber and qrCodeData name two different tickets
\* is answered with an error at once and changes no ticket; it is never
\* taken up for one of the two.
C15_AmbiguousScanFails ==
    [][ \A s \in Staff, b \in AllScanBodies, action \in {"entry", "exit"} :
          Ambiguous(b) /\ ScanFind("p1", s, b.ticketNumber, b.qrCodeData, NoEvent, action)
          => /\ Free("p1")'
             /\ ~out'.success
             /\ tickets' = tickets ]_vars

\* What every step of getEventAttendance keeps: it changes no collection, it
\* refuses staff who are not assigned to the event, and it answers with
\* total the number of active tickets of the event as stored at the answer,
\* scanned those of them with isScanned, and unscanned the rest.
AttendanceChecks ==
    /\ reqs'["p1"].op = "getEventAttendance" \/ out'.op = "getEventAttendance"
       => tickets' = tickets /\ events' = events
    /\ ( /\ Free("p1")
         /\ out'.op = "getEventAttendance"
         /\ out'.eventId \in DOMAIN events
         /\ out'.staffId \notin events[out'.eventId].assignedStaff )
       => /\ out'.status = 403
          /\ out'.message = "You are not assigned to this event"
    /\ out'.op = "getEventAttendance" /\ out'.success
       => LET active == { t \in TicketIds : /\ tickets[t].eventId = out'.eventId
                                            /\ tickets[t].status = "active" }
              scanned == { t \in active : tickets[t].verification.isScanned }
          IN /\ out'.staffId \in events[out'.eventId].assignedStaff
             /\ out'.totalTickets = Cardinality(active)
             /\ out'.scannedTickets = Cardinality(scanned)
             /\ out'.unscannedTickets = out'.totalTickets - out'.scannedTickets
             /\ 0 <= out'.scannedTickets /\ out'.scannedTickets <= out'.totalTickets

\* The rate r, in hundredths, is the quotient n / d to two decimals, and 0
\* when d is 0.
IsRounded(r, n, d) ==
    IF d = 0 THEN r = 0
    ELSE /\ 2 * (r * d - 100 * n) <= d
         /\ 2 * (100 * n - r * d) <= d

\* C19 as stated: the summary is as above and its rate is scanned / total.
C19_RateIsRatio ==
    [][ /\ AttendanceChecks
        /\ out'.op = "getEventAttendance" /\ out'.success
           => IsRounded(out'.attendanceRate, out'.scannedTickets, out'.totalTickets) ]_vars

\* C19, amended: the summary is as above and its rate is the percentage
\* 100 * scanned / total.
C19_RateIsPercentage ==
    [][ /\ AttendanceChecks
        /\ out'.op = "getEventAttendance" /\ out'.success
           => IsRounded(out'.attendanceRate, 100 * out'.scannedTickets,
                        out'.totalTickets) ]_vars

\* The summary of an event with two active tickets, one of them scanned, has
\* just been answered with the rate 50.00.
C19_HalfScanned ==
    /\ out.op = "getEventAttendance" /\ out.success
    /\ out.totalTickets = 2
    /\ out.scannedTickets = 1
    /\ out.attendanceRate = 5000

\* -------------------------------------------------------------------- gate
\* One connection on which anybody sends the requests of the ticket entry
\* points through the middleware of their routers; the event is free and
\* has s1 as staff.
GateInit ==
    /\ now = 0
    /\ events = ("e1" :> NewEvent("h1", Day, Day + 1, 2, TRUE, {"s1"}))
    /\ tickets = << >>
    /\ reqs = [p \in Procs |-> Idle]
    /\ out = NoResponse

GateNext ==
    \/ \E u \in Callers, route \in DOMAIN Routes : Refuse("p1", u, route)
    \/ \E u \in Callers, e \in Events :
          Admitted(u, "bookTicket") /\ BookFindEvent("p1", u, e)
    \/ BookFindExisting("p1")
    \/ \E num \in Generated(TicketNumbers), qr \in Generated(QrCodes) :
          BookSave("p1", num, qr)
    \/ BookIncrement("p1")
    \/ \E u \in Callers, t \in CancelTargets :
          Admitted(u, "cancelTicket") /\ CancelFind("p1", u, t)
    \/ CancelSave("p1")
    \/ CancelIncrement("p1")
    \/ \E u \in Callers, b \in ScanBodies, action \in {"entry", "exit"} :
          Admitted(u, "scanTicket")
          /\ ScanFind("p1", u, b.ticketNumber, b.qrCodeData, NoEvent, action)
    \/ ScanSave("p1")
    \/ Tick

GateSpec == GateInit /\ [][GateNext]_vars

\* The user u is active and has the role.
ActiveWithRole(u, role) ==
    /\ u \in {"a1", "a2", "s1", "h1"}
    /\ Users[u].isActive
    /\ Users[u].selectedRole = role

\* The request r of a handler comes from a user with the role of its route.
Entitled(r) ==
    CASE r.op \in {"bookTicket", "cancelTicket"} ->
           ActiveWithRole(r.attendeeId, "event_attendee")
      [] r.op = "scanTicket" -> ActiveWithRole(r.staffId, "event_staff")
      [] OTHER -> FALSE

\* C20: a step that changes the tickets or the events belongs to a request
\* of an active user with the role of the entry point (event_attendee for
\* bookTicket and cancelTicket, event_staff for scanTicket), every request a
\* handler takes up or answers comes from such a user, and a request the
\* middleware refuses changes nothing.
C20_RoleBeforeState ==
    [][ /\ tickets' # tickets \/ events' # events => Entitled(reqs["p1"])
        /\ Free("p1") /\ reqs'["p1"].op \in DOMAIN Routes => Entitled(reqs'["p1"])
        /\ Free("p1") /\ out'.op \in DOMAIN Routes => Entitled(out')
        /\ out'.op = "authorize"
           => /\ tickets' = tickets /\ events' = events
              /\ out'.status \in {401, 403}
              /\ ~ActiveWithRole(out'.userId, CHOOSE r \in Routes[out'.route] : TRUE) ]_vars

\* With a ticket booked, staff have just been refused a booking.
C20_StaffRefusedBooking ==
    /\ out.op = "authorize" /\ out.route = "bookTicket"
    /\ out.userId = "s1" /\ out.status = 403
    /\ Len(tickets) = 1

\* -------------------------------------------------------------- box office
\* The host creates the event, withdraws it, publishes it again and deletes
\* it, while attendees book and cancel.
HostNext ==
    \/ \E p \in Procs, e \in Events, h \in Hosts :
          CreateEvent(p, e, h, Day, Day + 1, 1, TRUE, {"s1"})
    \/ \E p \in Procs, a \in Attendees, e \in Events : BookFindEvent(p, a, e)
    \/ \E p \in Procs : BookFindExisting(p)
    \/ \E p \in Procs, num \in Generated(TicketNumbers), qr \in Generated(QrCodes) :
          BookSave(p, num, qr)
    \/ \E p \in Procs : BookIncrement(p)
    \/ \E p \in Procs, a \in Attendees, t \in CancelTargets : CancelFind(p, a, t)
    \/ \E p \in Procs : CancelSave(p)
    \/ \E p \in Procs : CancelIncrement(p)
    \/ \E p \in Procs, h \in Hosts, e \in Events, body \in StatusBodies :
          UpdateFind(p, h, e, body)
    \/ \E p \in Procs : UpdateWrite(p)
    \/ \E p \in Procs, h \in Hosts, e \in Events : DeleteFind(p, h, e)
    \/ \E p \in Procs : DeleteCount(p)
    \/ \E p \in Procs : DeleteRemove(p)
    \/ Tick

HostSpec == Init /\ [][HostNext]_vars

\* A booking for e must not go through: there is no such event, it is not
\* published, it has started or it is sold out.
Closed(e) ==
    \/ e \notin DOMAIN events
    \/ events[e].status # "published"
    \/ events[e].startDateTime <= now
    \/ events[e].ticketsSold >= events[e].capacity

\* The step ends the request of p with a failure and changes no collection.
RejectedUnchanged(p) ==
    /\ Free(p)'
    /\ out'.op = "bookTicket"
    /\ ~out'.success
    /\ tickets' = tickets
    /\ events' = events

\* C29: in every reachable state the event of every ticket exists, however
\* deleteEvent and bookTicket for the event overlap.
C29_TicketsHaveEvents ==
    \A t \in TicketIds : tickets[t].eventId \in DOMAIN events

WindowInit ==
    /\ now = 0
    /\ events = ("e1" :> [NewEvent("h1", Day, Day + 1, 2, TRUE, {"s1"})
                            EXCEPT !.ticketsSold = 1])
    /\ tickets = <<FreeTicket("e1", "a1", 1, 1)>>
    /\ reqs = [p \in Procs |-> Idle]
    /\ out = NoResponse

WindowNext ==
    \/ \E s \in Staff, b \in ScanBodies, action \in {"entry", "exit"} :
          ScanFind("p1", s, b.ticketNumber, b.qrCodeData, NoEvent, action)
    \/ ScanSave("p1")
    \/ \E h \in Hosts, e \in Events, body \in {b \in UpdateBodies : b.capacity = 0} :
          UpdateFind("p2", h, e, body)
    \/ UpdateWrite("p2")
    \/ Tick

WindowSpec == WindowInit /\ [][WindowNext]_vars

\* The time is outside the window of the event of t for the action.
OutsideWindow(t, action) ==
    \/ action = "entry" /\ now < events[tickets[t].eventId].startDateTime
    \/ now > events[tickets[t].eventId].endDateTime

\* C25: a scan goes on to its save only inside the window of its action
\* (start <= now <= end for entry, now <= end for exit); a scan of an active
\* ticket by assigned staff outside the window is answered with the
\* event-window error and changes no ticket; and after every step every
\* ticket with isScanned belongs to an event that has started.
C25_ScanWindow ==
    [][ /\ Free("p1") /\ reqs'["p1"].op = "scanTicket"
           => ~OutsideWindow(reqs'["p1"].ticketId, reqs'["p1"].action)
        /\ ( /\ ScanRefused
             /\ out'.ticketId # 0
             /\ out'.staffId \in events[tickets[out'.ticketId].eventId].assignedStaff
             /\ tickets[out'.ticketId].status = "active"
             /\ OutsideWindow(out'.ticketId, out'.action) )
           => /\ out'.status = 400
              /\ out'.message \in {"Event has not started yet", "Event has already ended"}
              /\ tickets' = tickets
        /\ \A t \in DOMAIN tickets' :
              tickets'[t].verification.isScanned
              => events'[tickets'[t].eventId].startDateTime <= now' ]_vars

\* ------------------------------------------------------------------ outage
\* One connection books, cancels and scans while the database may reject a
\* call; the event is free, published and has capacity 2.
FaultNext ==
    \/ \E a \in Attendees, e \in Events : BookFindEvent("p1", a, e)
    \/ BookFindExisting("p1")
    \/ \E num \in Generated(TicketNumbers), qr \in Generated(QrCodes) :
          BookSave("p1", num, qr)
    \/ BookIncrement("p1")
    \/ \E a \in Attendees, t \in CancelTargets : CancelFind("p1", a, t)
    \/ CancelSave("p1")
    \/ CancelIncrement("p1")
    \/ \E s \in Staff, b \in ScanBodies, action \in {"entry", "exit"} :
          ScanFind("p1", s, b.ticketNumber, b.qrCodeData, NoEvent, action)
    \/ ScanSave("p1")
    \/ Rejects("p1")
    \/ Tick

FaultSpec == ScenarioInit /\ [][FaultNext]_vars

\* The request r has stored its ticket and has its counter update to come.
Wrote(r) == r.op \in {"bookTicket", "cancelTicket"} /\ r.pc = "increment"

\* C26: a bookTicket, cancelTicket or scanTicket that answers success=false
\* has changed nothing: the answering step writes neither tickets nor
\* events, and the request has stored nothing before it.
C26_FailureChangesNothing ==
    [][ out'.op \in {"bookTicket", "cancelTicket", "scanTicket"} /\ ~out'.success
        => /\ tickets' = tickets
           /\ events' = events
           /\ ~Wrote(reqs["p1"]) ]_vars

\* ------------------------------------------------------------------ wallet
\* One connection on which attendees book, look at their tickets and cancel;
\* the event is free, published, starts in a day and has capacity 2.
WalletNext ==
    \/ \E a \in Attendees, e \in Events : BookFindEvent("p1", a, e)
    \/ BookFindExisting("p1")
    \/ \E num \in Generated(TicketNumbers), qr \in Generated(QrCodes) :
          BookSave("p1", num, qr)
    \/ BookIncrement("p1")
    \/ \E a \in Attendees : GetMyTickets("p1", a)
    \/ \E a \in Attendees, t \in CancelTargets : CancelFind("p1", a, t)
    \/ CancelSave("p1")
    \/ CancelIncrement("p1")
    \/ Tick

WalletSpec == ScenarioInit /\ [][WalletNext]_vars

\* C30: the canCancel that getMyTickets answers for a ticket is true exactly
\* when the ticket is active and its event starts 24 hours or more from now,
\* which is when cancelTicket by the owner is accepted at that instant.
C30_CanCancelAgrees ==
    [][ out'.op = "getMyTickets"
        => \A t \in DOMAIN out'.canCancel :
              out'.canCancel[t]
              <=> /\ tickets[t].status = "active"
                  /\ events[tickets[t].eventId].startDateTime - now >= Day ]_vars

====
